---- MODULE Spec2Model ----
(***************************************************************************)
(* A model of the KZG commitment-key crate: the scalar-field batch         *)
(* inversion (crypto/src/lib.rs), the multi-scalar multiplication and the  *)
(* commit keys (src/commit_key.rs).                                        *)
(*                                                                         *)
(* The scalar field is the prime field of order P.  G1 is a group of that  *)
(* same prime order, so it is cyclic and every point is k*G for exactly    *)
(* one k in 0..P-1: an affine point is modelled by that k (0 the identity, *)
(* 1 the generator G).                                                     *)
(***************************************************************************)
EXTENDS Integers, Sequences, FiniteSets

VARIABLES
    \* build and runtime configuration
    rayon,              \* cfg(feature = "rayon")
    num_cpus_available, \* rayon::current_num_threads()
    \* batch_inverse
    v,                  \* the slice being inverted in place
    v0,                 \* the slice as it was passed in
    chunks,             \* the chunks par_chunks_mut handed out, as <<lo, hi>>
    pending,            \* the chunks no worker has processed yet
    inverted,           \* the values Field::invert was called on
    inversions,         \* how many times Field::invert was called
    ipc,                \* where the batch_inverse call is
    \* g1_lincomb
    points, scalars,    \* the arguments
    lincomb,            \* which of the two g1_lincomb functions is called
    ret,                \* what the call did
    mpc,
    \* commit keys
    key_points,         \* the points given to the constructor
    key,                \* the key value held (NoKey before construction)
    call,               \* the last call on the key types and its outcome
    kpc,
    \* tests::transform_srs
    degree, f_x_coeffs, secret,
    f_x_evaluations, monomial_srs,
    expected_commitment, got_commitment,
    spc

cfgVars == <<rayon, num_cpus_available>>
invVars == <<v, v0, chunks, pending, inverted, inversions, ipc>>
msmVars == <<points, scalars, lincomb, ret, mpc>>
keyVars == <<key_points, key, call, kpc>>
srsVars == <<degree, f_x_coeffs, secret, f_x_evaluations, monomial_srs,
             expected_commitment, got_commitment, spc>>
vars == <<cfgVars, invVars, msmVars, keyVars, srsVars>>

----------------------------------------------------------------------------
\* Bounds of the model.
MaxElems == 4      \* longest slice given to batch_inverse
MaxWorkers == 3    \* most rayon threads
MaxPts == 2        \* longest argument of a direct g1_lincomb call
MaxKeyLen == 2     \* most points given to a key constructor
MaxPolyLen == 3    \* most evaluations of a committed polynomial

\* The order of the scalar field (blstrs::Scalar), scaled down to a prime
\* with a subgroup of 4th roots of unity.
P == 5

Min(a, b) == IF a < b THEN a ELSE b
Max(a, b) == IF a > b THEN a ELSE b
SeqsUpTo(S, n) == UNION {[1..k -> S] : k \in 0..n}
Reverse(s) == [i \in 1..Len(s) |-> s[Len(s) + 1 - i]]
Skip1(s) == IF s = <<>> THEN <<>> ELSE Tail(s)
Range(s) == {s[i] : i \in DOMAIN s}

----------------------------------------------------------------------------
\* blstrs::Scalar

Scalar == 0..(P - 1)
Scalar_zero == 0
Scalar_one == 1
Add(a, b) == (a + b) % P
Mul(a, b) == (a * b) % P
is_zero_vartime(f) == f = Scalar_zero

RECURSIVE pow_vartime(_, _)
pow_vartime(x, e) == IF e = 0 THEN Scalar_one ELSE Mul(x, pow_vartime(x, e - 1))

\* Option / CtOption
None == <<>>
Some(x) == <<x>>

\* Field::invert: None for zero, else the y with x * y = 1.
invert(x) ==
    IF is_zero_vartime(x) THEN None
    ELSE Some(CHOOSE y \in Scalar : Mul(x, y) = Scalar_one)

\* inverse(x): x.invert().unwrap_or(Scalar::zero())
inverse(x) == IF invert(x) = None THEN Scalar_zero ELSE invert(x)[1]

----------------------------------------------------------------------------
\* serial_batch_inversion

\* the first pass' filter: .filter(|f| !f.is_zero_vartime())
FirstPassKeepsAll(f) == TRUE
FirstPassKeeps(f) == ~is_zero_vartime(f)

\* First pass: tmp is the running product of the elements kept, prod the
\* partial products [a, ab, abc, ...].
RECURSIVE FirstPassFrom(_, _, _, _)
FirstPassFrom(s, i, tmp, prod) ==
    IF i > Len(s) THEN [tmp |-> tmp, prod |-> prod]
    ELSE IF FirstPassKeeps(s[i])
         THEN FirstPassFrom(s, i + 1, Mul(tmp, s[i]), Append(prod, Mul(tmp, s[i])))
         ELSE FirstPassFrom(s, i + 1, tmp, prod)

FirstPass(s) == FirstPassFrom(s, 1, Scalar_one, <<>>)

\* prod.into_iter().rev().skip(1).chain(Some(Scalar::one()))
SecondPassScalarsNoSkip(prod) == Reverse(prod) \o <<Scalar_one>>
SecondPassScalars(prod) == Skip1(Reverse(prod)) \o <<Scalar_one>>

\* v.iter_mut().rev().filter(|f| !f.is_zero_vartime()): the positions visited,
\* last first.
RECURSIVE SecondPassPositions(_, _)
SecondPassPositions(s, i) ==
    IF i = 0 THEN <<>>
    ELSE IF ~is_zero_vartime(s[i])
         THEN <<i>> \o SecondPassPositions(s, i - 1)
         ELSE SecondPassPositions(s, i - 1)

\* Second pass, from the j-th pair of the zip on:
\*   new_tmp = tmp * f;  f = tmp * s;  tmp = new_tmp
RECURSIVE SecondPassFrom(_, _, _, _, _)
SecondPassFrom(s, pos, ss, j, tmp) ==
    IF j > Min(Len(pos), Len(ss)) THEN s
    ELSE SecondPassFrom([s EXCEPT ![pos[j]] = Mul(tmp, ss[j])],
                        pos, ss, j + 1, Mul(tmp, s[pos[j]]))

\* One field inversion per non-zero element, no Montgomery trick.
NaiveBatchInversion(s) ==
    [panicked |-> FALSE,
     inverted |-> SelectSeq(s, LAMBDA f : ~is_zero_vartime(f)),
     v |-> [i \in 1..Len(s) |-> inverse(s[i])]]

\* What one call does to the slice s: the slice afterwards, the values it
\* called invert on, and whether tmp.invert().unwrap() panicked.
serial_batch_inversion(s) ==
    LET first == FirstPass(s)
        inv == invert(first.tmp)
    IN  IF inv = None
        THEN [panicked |-> TRUE, inverted |-> <<first.tmp>>, v |-> s]
        ELSE [panicked |-> FALSE, inverted |-> <<first.tmp>>,
              v |-> SecondPassFrom(s, SecondPassPositions(s, Len(s)),
                                   SecondPassScalars(first.prod), 1, inv[1])]

----------------------------------------------------------------------------
\* batch_inverse / batch_inversion

min_elements_per_thread == 1

\* std::cmp::max(num_elems / num_cpus_available, min_elements_per_thread)
num_elem_per_thread(num_elems, cpus) ==
    Max(num_elems \div cpus, min_elements_per_thread)

\* par_chunks_mut(size) over a slice of n elements: consecutive chunks of
\* size elements, the last one shorter when size does not divide n; none for
\* an empty slice.
ParChunksOverlapping(n, size) ==
    [k \in 1..((n + size - 1) \div size) |->
        <<(k - 1) * size + 1, Min(k * size + 1, n)>>]
par_chunks_mut(n, size) ==
    [k \in 1..((n + size - 1) \div size) |->
        <<(k - 1) * size + 1, Min(k * size, n)>>]

\* the slice s with s[lo..hi] replaced by c
WriteChunk(s, lo, c) ==
    [i \in 1..Len(s) |->
        IF i >= lo /\ i < lo + Len(c) THEN c[i - lo + 1] ELSE s[i]]

InvIdle ==
    /\ v = <<>> /\ v0 = <<>> /\ chunks = <<>> /\ pending = {}
    /\ inverted = {} /\ inversions = 0 /\ ipc = "off"

CfgIdle == rayon = FALSE /\ num_cpus_available = 1

\* batch_inversion without the rayon feature: serial_batch_inversion(v)
BatchInversionSerial ==
    /\ ipc = "call" /\ ~rayon
    /\ LET r == serial_batch_inversion(v)
       IN  /\ v' = r.v
           /\ inverted' = inverted \cup Range(r.inverted)
           /\ inversions' = inversions + Len(r.inverted)
           /\ ipc' = IF r.panicked THEN "panic" ELSE "done"
    /\ UNCHANGED <<v0, chunks, pending>>

\* batch_inversion with the rayon feature, up to the fan-out
BatchInversionRayon ==
    /\ ipc = "call" /\ rayon
    /\ chunks' = par_chunks_mut(Len(v),
                     num_elem_per_thread(Len(v), num_cpus_available))
    /\ pending' = DOMAIN chunks'
    /\ ipc' = "par"
    /\ UNCHANGED <<v, v0, inverted, inversions>>

\* One worker runs the closure on chunk k.  The chunks are disjoint &mut
\* slices, so a task reads and writes its own chunk only.
ChunkTask(k) ==
    /\ ipc = "par" /\ k \in pending
    /\ LET lo == chunks[k][1]
           hi == chunks[k][2]
           r == serial_batch_inversion(SubSeq(v, lo, hi))
       IN  /\ v' = WriteChunk(v, lo, r.v)
           /\ inverted' = inverted \cup Range(r.inverted)
           /\ inversions' = inversions + Len(r.inverted)
           /\ ipc' = IF r.panicked THEN "panic" ELSE "par"
    /\ pending' = pending \ {k}
    /\ UNCHANGED <<v0, chunks>>

\* for_each returns once every chunk is done
BatchInversionJoin ==
    /\ ipc = "par" /\ pending = {}
    /\ ipc' = "done"
    /\ UNCHANGED <<v, v0, chunks, pending, inverted, inversions>>

----------------------------------------------------------------------------
\* blstrs::G1Affine and blstrs::G1Projective

G1Point == 0..(P - 1)
G1_identity == 0
G1_generator == 1

\* point * scalar and point + point on affine points
G1Mul(p, s) == (p * s) % P
G1Add(p, q) == (p + q) % P
G1Sub(p, q) == (p + (P - q)) % P

\* A projective point <<x, z>>, z # 0, stands for the affine point x / z.
\* G1Projective::from(&G1Affine) sets z = 1; .into() divides z out again.
G1Projective_from(p) == <<p, Scalar_one>>
G1Projective_identity == <<G1_identity, Scalar_one>>
G1Projective_add(a, b) ==
    <<Add(Mul(a[1], b[2]), Mul(b[1], a[2])), Mul(a[2], b[2])>>
G1Projective_mul(a, s) == <<Mul(a[1], s), a[2]>>
G1Affine_from(a) == Mul(a[1], inverse(a[2]))

\* G1Projective::multi_exp(points, scalars), the external primitive: the sum
\* of points[i] * scalars[i] over the indices both slices have.
RECURSIVE MultiExpFrom(_, _, _)
MultiExpFrom(ps, ss, i) ==
    IF i > Min(Len(ps), Len(ss)) THEN G1Projective_identity
    ELSE G1Projective_add(G1Projective_mul(ps[i], ss[i]),
                          MultiExpFrom(ps, ss, i + 1))

multi_exp(ps, ss) == MultiExpFrom(ps, ss, 1)

\* assert_eq!(points.len(), scalars.len())
AssertLenAtMost(ps, ss) == Len(ps) <= Len(ss)
assert_eq_len(ps, ss) == Len(ps) = Len(ss)

\* What a g1_lincomb call did: "panic" or "ok", how many points it converted
\* to projective form, how many multi_exp calls it made, and the point it
\* returned (None when it panicked).
LincombPanic == [status |-> "panic", converted |-> 0, multi_exps |-> 0,
                 value |-> None]
NoRet == [status |-> "none", converted |-> 0, multi_exps |-> 0, value |-> None]

\* g1_lincomb of commit_key.rs
g1_lincomb(ps, ss) ==
    IF ~assert_eq_len(ps, ss) THEN LincombPanic
    ELSE LET proj == [i \in 1..Len(ps) |-> G1Projective_from(ps[i])]
         IN  [status |-> "ok", converted |-> Len(proj), multi_exps |-> 1,
              value |-> Some(G1Affine_from(multi_exp(proj, ss)))]

\* g1_lincomb of crypto/src/lib.rs: the same, the conversion a parallel map
\* under the rayon feature (collect keeps the order of the points).
crypto_g1_lincomb(ps, ss) ==
    IF ~assert_eq_len(ps, ss) THEN LincombPanic
    ELSE LET proj == [i \in 1..Len(ps) |-> G1Projective_from(ps[i])]
         IN  [status |-> "ok", converted |-> Len(proj), multi_exps |-> 1,
              value |-> Some(G1Affine_from(multi_exp(proj, ss)))]

MsmIdle ==
    /\ points = <<>> /\ scalars = <<>> /\ lincomb = "none"
    /\ ret = NoRet /\ mpc = "off"

CallG1Lincomb ==
    /\ mpc = "call"
    /\ lincomb' = "commit_key::g1_lincomb"
    /\ ret' = g1_lincomb(points, scalars)
    /\ mpc' = "returned"
    /\ UNCHANGED <<points, scalars>>

CallCryptoG1Lincomb ==
    /\ mpc = "call"
    /\ lincomb' = "crypto::g1_lincomb"
    /\ ret' = crypto_g1_lincomb(points, scalars)
    /\ mpc' = "returned"
    /\ UNCHANGED <<points, scalars>>

----------------------------------------------------------------------------
\* Domain (domain.rs is not part of the sources at hand: modelled from the
\* specification, sections 3 and 4.3)

IsPowerOfTwo(n) == \E k \in 0..n : 2^k = n

\* the orders of the power-of-two subgroups of the field's unit group
DomainSizes(max) == {n \in 1..max : IsPowerOfTwo(n) /\ (P - 1) % n = 0}

IsPrimitiveRoot(w, n) ==
    /\ pow_vartime(w, n) = Scalar_one
    /\ \A k \in 1..(n - 1) : pow_vartime(w, k) # Scalar_one

\* Domain::new: the roots [w^0, w^1, ..., w^(n-1)] of a primitive n-th root w
Domain_new(n) ==
    LET w == CHOOSE x \in Scalar : IsPrimitiveRoot(x, n)
    IN  [roots |-> [i \in 1..n |-> pow_vartime(w, i - 1)]]

\* The radix-2 butterfly over group elements, for the root w of order Len(ps).
RECURSIVE fft_g1(_, _)
fft_g1(ps, w) ==
    IF Len(ps) <= 1 THEN ps
    ELSE LET half == Len(ps) \div 2
             even == fft_g1([i \in 1..half |-> ps[2 * i - 1]], Mul(w, w))
             odd == fft_g1([i \in 1..half |-> ps[2 * i]], Mul(w, w))
         IN  [k \in 1..Len(ps) |->
                 IF k <= half
                 THEN G1Add(even[k], G1Mul(odd[k], pow_vartime(w, k - 1)))
                 ELSE G1Sub(even[k - half],
                            G1Mul(odd[k - half], pow_vartime(w, k - half - 1)))]

\* Domain::ifft_g1: the butterfly with the inverse root, then the 1/n
\* normalization.  It returns as many points as it is given.
ifft_g1(domain, ps) ==
    LET n == Len(domain.roots)
        w_inv == domain.roots[n]
        n_inv == inverse(n % P)
        t == fft_g1(ps, w_inv)
    IN  [i \in 1..Len(ps) |-> G1Mul(t[i], n_inv)]

----------------------------------------------------------------------------
\* CommitKey and CommitKeyLagrange

NoKey == [kind |-> "none", inner |-> <<>>]
NoCall == [op |-> "none", status |-> "none", arg |-> <<>>, value |-> None]

\* CommitKey::new
CommitKey_new(ps) ==
    IF ~(ps # <<>>) THEN [status |-> "panic", key |-> NoKey]
    ELSE [status |-> "ok", key |-> [kind |-> "CommitKey", inner |-> ps]]

\* CommitKey::into_lagrange
into_lagrange(self, domain) ==
    [kind |-> "CommitKeyLagrange", inner |-> ifft_g1(domain, self.inner)]

\* CommitKeyLagrange::new
CommitKeyLagrangeNewNonEmpty(ps) ==
    IF ~(Len(ps) > 0) THEN [status |-> "panic", key |-> NoKey]
    ELSE [status |-> "ok", key |-> [kind |-> "CommitKeyLagrange", inner |-> ps]]
CommitKeyLagrange_new(ps) ==
    IF ~(Len(ps) > 1) THEN [status |-> "panic", key |-> NoKey]
    ELSE [status |-> "ok", key |-> [kind |-> "CommitKeyLagrange", inner |-> ps]]

\* CommitKeyLagrange::commit
CommitTruncating(self, evaluations) ==
    LET m == Min(Len(self.inner), Len(evaluations))
    IN  g1_lincomb(SubSeq(self.inner, 1, m), SubSeq(evaluations, 1, m))
commit(self, evaluations) == g1_lincomb(self.inner, evaluations)

\* CommitKeyLagrange::max_degree: self.inner.len() - 1 in usize, which
\* overflows for an empty key (a panic in a debug build, 2^64 - 1 in release).
max_degree(self) ==
    IF Len(self.inner) = 0
    THEN [status |-> "overflow", value |-> None]
    ELSE [status |-> "ok", value |-> Some(Len(self.inner) - 1)]

KeyIdle ==
    /\ key_points = <<>> /\ key = NoKey /\ call = NoCall /\ kpc = "off"

CallCommitKeyNew ==
    /\ kpc = "start"
    /\ LET r == CommitKey_new(key_points)
       IN  /\ key' = r.key
           /\ call' = [op |-> "CommitKey::new", status |-> r.status,
                       arg |-> key_points, value |-> None]
           /\ kpc' = IF r.status = "ok" THEN "built" ELSE "panic"
    /\ UNCHANGED key_points

CallCommitKeyLagrangeNew ==
    /\ kpc = "start"
    /\ LET r == CommitKeyLagrange_new(key_points)
       IN  /\ key' = r.key
           /\ call' = [op |-> "CommitKeyLagrange::new", status |-> r.status,
                       arg |-> key_points, value |-> None]
           /\ kpc' = IF r.status = "ok" THEN "built" ELSE "panic"
    /\ UNCHANGED key_points

\* self.into_lagrange(&domain), for the domain with as many roots as the key
\* has points
CallIntoLagrange ==
    /\ kpc = "built" /\ key.kind = "CommitKey"
    /\ Len(key.inner) \in DomainSizes(Len(key.inner))
    /\ key' = into_lagrange(key, Domain_new(Len(key.inner)))
    /\ call' = [op |-> "into_lagrange", status |-> "ok",
                arg |-> key.inner, value |-> None]
    /\ UNCHANGED <<key_points, kpc>>

CallCommit(evaluations) ==
    /\ kpc = "built" /\ key.kind = "CommitKeyLagrange"
    /\ LET r == commit(key, evaluations)
       IN  call' = [op |-> "commit", status |-> r.status,
                    arg |-> evaluations, value |-> r.value]
    /\ kpc' = "returned"
    /\ UNCHANGED <<key_points, key>>

CallMaxDegree ==
    /\ kpc = "built" /\ key.kind = "CommitKeyLagrange"
    /\ LET r == max_degree(key)
       IN  call' = [op |-> "max_degree", status |-> r.status,
                    arg |-> <<>>, value |-> r.value]
    /\ kpc' = "returned"
    /\ UNCHANGED <<key_points, key>>

----------------------------------------------------------------------------
\* tests::transform_srs

\* eval_coeff_poly: result += input_point.pow_vartime(index) * coeff
RECURSIVE EvalCoeffPolyShifted(_, _)
EvalCoeffPolyShifted(poly, input_point) ==
    IF poly = <<>> THEN Scalar_zero
    ELSE Add(EvalCoeffPolyShifted(SubSeq(poly, 1, Len(poly) - 1), input_point),
             Mul(pow_vartime(input_point, Len(poly)), poly[Len(poly)]))
RECURSIVE eval_coeff_poly(_, _)
eval_coeff_poly(poly, input_point) ==
    IF poly = <<>> THEN Scalar_zero
    ELSE Add(eval_coeff_poly(SubSeq(poly, 1, Len(poly) - 1), input_point),
             Mul(pow_vartime(input_point, Len(poly) - 1), poly[Len(poly)]))

SrsIdle ==
    /\ degree = 0 /\ f_x_coeffs = <<>> /\ secret = 0
    /\ f_x_evaluations = <<>> /\ monomial_srs = <<>>
    /\ expected_commitment = NoRet /\ got_commitment = NoRet
    /\ spc = "off"

\* the domain, the evaluation form of f(x) and the monomial SRS
SrsSetup ==
    /\ spc = "start"
    /\ LET domain == Domain_new(degree)
       IN  f_x_evaluations' =
               [i \in 1..Len(domain.roots) |->
                   eval_coeff_poly(f_x_coeffs, domain.roots[i])]
    /\ monomial_srs' =
           [index \in 1..degree |->
               G1Mul(G1_generator, pow_vartime(secret, index - 1))]
    /\ spc' = "setup"
    /\ UNCHANGED <<degree, f_x_coeffs, secret, expected_commitment,
                   got_commitment>>

\* Commit to f(x) in monomial form
SrsCommitMonomial ==
    /\ spc = "setup"
    /\ expected_commitment' = g1_lincomb(monomial_srs, f_x_coeffs)
    /\ spc' = "expected"
    /\ UNCHANGED <<degree, f_x_coeffs, secret, f_x_evaluations, monomial_srs,
                   got_commitment>>

\* Commit to f(x) in lagrange form
SrsCommitLagrange ==
    /\ spc = "expected"
    /\ LET commit_key == [kind |-> "CommitKey", inner |-> monomial_srs]
           lagrange_srs == into_lagrange(commit_key, Domain_new(degree)).inner
       IN  got_commitment' = g1_lincomb(lagrange_srs, f_x_evaluations)
    /\ spc' = "done"
    /\ UNCHANGED <<degree, f_x_coeffs, secret, f_x_evaluations, monomial_srs,
                   expected_commitment>>

----------------------------------------------------------------------------
\* Specifications

\* batch_inverse on every slice of up to MaxElems scalars, in both builds
InitInv ==
    /\ rayon \in BOOLEAN
    /\ num_cpus_available \in 1..MaxWorkers
    /\ v0 \in SeqsUpTo(Scalar, MaxElems)
    /\ v = v0
    /\ chunks = <<>> /\ pending = {}
    /\ inverted = {} /\ inversions = 0
    /\ ipc = "call"
    /\ MsmIdle /\ KeyIdle /\ SrsIdle

NextInv ==
    \/ (BatchInversionSerial /\ UNCHANGED <<cfgVars, msmVars, keyVars, srsVars>>)
    \/ (BatchInversionRayon /\ UNCHANGED <<cfgVars, msmVars, keyVars, srsVars>>)
    \/ (\E k \in DOMAIN chunks :
            ChunkTask(k) /\ UNCHANGED <<cfgVars, msmVars, keyVars, srsVars>>)
    \/ (BatchInversionJoin /\ UNCHANGED <<cfgVars, msmVars, keyVars, srsVars>>)

SpecInv == InitInv /\ [][NextInv]_vars

\* a direct g1_lincomb call on every pair of slices of up to MaxPts elements
InitMsm ==
    /\ points \in SeqsUpTo(G1Point, MaxPts)
    /\ scalars \in SeqsUpTo(Scalar, MaxPts)
    /\ lincomb = "none" /\ ret = NoRet /\ mpc = "call"
    /\ CfgIdle /\ InvIdle /\ KeyIdle /\ SrsIdle

NextMsm ==
    \/ (CallG1Lincomb /\ UNCHANGED <<cfgVars, invVars, keyVars, srsVars>>)
    \/ (CallCryptoG1Lincomb /\ UNCHANGED <<cfgVars, invVars, keyVars, srsVars>>)

SpecMsm == InitMsm /\ [][NextMsm]_vars

\* the commit keys: a constructor, the conversion, then one method call
Init ==
    /\ key_points \in SeqsUpTo(G1Point, MaxKeyLen)
    /\ key = NoKey /\ call = NoCall /\ kpc = "start"
    /\ CfgIdle /\ InvIdle /\ MsmIdle /\ SrsIdle

Next ==
    \/ (CallCommitKeyNew /\ UNCHANGED <<cfgVars, invVars, msmVars, srsVars>>)
    \/ (CallCommitKeyLagrangeNew
            /\ UNCHANGED <<cfgVars, invVars, msmVars, srsVars>>)
    \/ (CallIntoLagrange /\ UNCHANGED <<cfgVars, invVars, msmVars, srsVars>>)
    \/ (\E evaluations \in SeqsUpTo(Scalar, MaxPolyLen) :
            CallCommit(evaluations)
                /\ UNCHANGED <<cfgVars, invVars, msmVars, srsVars>>)
    \/ (CallMaxDegree /\ UNCHANGED <<cfgVars, invVars, msmVars, srsVars>>)

Spec == Init /\ [][Next]_vars

\* transform_srs for every domain size up to MaxDegree, every polynomial of
\* that many coefficients and every secret
MaxDegree == 4

InitSrs ==
    /\ degree \in DomainSizes(MaxDegree)
    /\ f_x_coeffs \in [1..degree -> Scalar]
    /\ secret \in Scalar
    /\ f_x_evaluations = <<>> /\ monomial_srs = <<>>
    /\ expected_commitment = NoRet /\ got_commitment = NoRet
    /\ spc = "start"
    /\ CfgIdle /\ InvIdle /\ MsmIdle /\ KeyIdle

NextSrs ==
    \/ (SrsSetup /\ UNCHANGED <<cfgVars, invVars, msmVars, keyVars>>)
    \/ (SrsCommitMonomial /\ UNCHANGED <<cfgVars, invVars, msmVars, keyVars>>)
    \/ (SrsCommitLagrange /\ UNCHANGED <<cfgVars, invVars, msmVars, keyVars>>)

SpecSrs == InitSrs /\ [][NextSrs]_vars

----------------------------------------------------------------------------
\* Properties

\* the product of the non-zero elements of s (1 when there are none)
RECURSIVE NonZeroProduct(_)
NonZeroProduct(s) ==
    IF s = <<>> THEN Scalar_one
    ELSE IF s[1] = Scalar_zero THEN NonZeroProduct(Tail(s))
         ELSE Mul(s[1], NonZeroProduct(Tail(s)))

\* the sum over i of scs[i] * pts[i], on affine points
RECURSIVE SumOfProducts(_, _)
SumOfProducts(pts, scs) ==
    IF pts = <<>> THEN G1_identity
    ELSE G1Add(G1Mul(pts[1], scs[1]), SumOfProducts(Tail(pts), Tail(scs)))

CeilDiv(a, b) == (a + b - 1) \div b

\* C1: after batch_inverse the slice has the length it had and every entry
\* is inverse() of the entry that was there: a non-zero entry is replaced by
\* its multiplicative inverse (inverting it again gives the entry back), a
\* zero entry stays zero where it is.
C1_BatchInverseIsPointwiseInverse ==
    ipc = "done" =>
        /\ Len(v) = Len(v0)
        /\ \A i \in 1..Len(v0) :
              /\ v[i] = inverse(v0[i])
              /\ v0[i] # Scalar_zero =>
                    Mul(v[i], v0[i]) = Scalar_one /\ inverse(v[i]) = v0[i]
              /\ v0[i] = Scalar_zero => v[i] = Scalar_zero

\* a finished call on a slice with a zero between two non-zero entries, one
\* of them not its own inverse
C1_Witness ==
    /\ ipc = "done"
    /\ \E i, j, k \in 1..Len(v0) :
          /\ i < j /\ j < k
          /\ v0[i] # Scalar_zero /\ v0[j] = Scalar_zero /\ v0[k] # Scalar_zero
          /\ v[i] # v0[i]

\* C2: a g1_lincomb call panics exactly when points and scalars differ in
\* length, and when it panics it has converted no point, called multi_exp
\* not once and returned no point.
C2_LincombFailsFastOnLengthMismatch ==
    mpc = "returned" =>
        /\ ret.status \in {"ok", "panic"}
        /\ ret.status = "panic" <=> Len(points) # Len(scalars)
        /\ ret.status = "panic" =>
              ret.converted = 0 /\ ret.multi_exps = 0 /\ ret.value = None

\* a call with more points than scalars, which panicked
C2_Witness ==
    /\ mpc = "returned" /\ ret.status = "panic"
    /\ Len(points) = 2 /\ Len(scalars) = 1

\* C3: commit returns the sum of evaluations[i] * points[i] when the
\* polynomial has as many evaluations as the key has points, and panics,
\* returning no commitment, when the lengths differ either way.
C3_CommitIsLincombOrMismatchError ==
    call.op = "commit" =>
        IF Len(call.arg) = Len(key.inner)
        THEN /\ call.status = "ok"
             /\ call.value = Some(SumOfProducts(key.inner, call.arg))
        ELSE call.status = "panic" /\ call.value = None

\* a commitment other than the identity from a two-point key
C3_Witness ==
    /\ call.op = "commit" /\ call.status = "ok"
    /\ Len(key.inner) = 2
    /\ call.value # Some(G1_identity)

\* C4: when the parallel batch_inversion has joined, whatever the number of
\* workers and the order the chunks were processed in, the slice is what one
\* serial_batch_inversion call over the whole slice leaves.
C4_ParallelEqualsSerial ==
    (rayon /\ ipc = "done") =>
        /\ ~serial_batch_inversion(v0).panicked
        /\ v = serial_batch_inversion(v0).v

\* a joined parallel call that split the slice and changed it
C4_Witness ==
    /\ rayon /\ ipc = "done"
    /\ Len(chunks) >= 2
    /\ v # v0

\* C5: the parallel form splits a non-empty slice into contiguous chunks that
\* cover it without overlap, each of at least one element, and into at most
\* as many chunks as there are workers.
C5_ChunksPartitionBoundedByWorkers ==
    (rayon /\ ipc \in {"par", "done"} /\ Len(v0) >= 1) =>
        /\ Len(chunks) >= 1
        /\ chunks[1][1] = 1
        /\ chunks[Len(chunks)][2] = Len(v0)
        /\ \A k \in 1..Len(chunks) : chunks[k][2] - chunks[k][1] + 1 >= 1
        /\ \A k \in 1..(Len(chunks) - 1) : chunks[k + 1][1] = chunks[k][2] + 1
        /\ Len(chunks) <= num_cpus_available

\* C6: the commitment taken with the monomial key equals the commitment
\* taken with its Lagrange form and the evaluations over the domain.
C6_BasisRoundTrip ==
    spc = "done" =>
        /\ expected_commitment.status = "ok"
        /\ got_commitment.status = "ok"
        /\ expected_commitment.value = got_commitment.value

\* the test's polynomial over four roots, with a secret other than 0 and 1
C6_Witness ==
    /\ spc = "done" /\ degree = 4
    /\ f_x_coeffs = <<0, 1, 2, 3>>
    /\ secret \notin {0, 1}
    /\ got_commitment.value # Some(G1_identity)

\* C7: CommitKey::new panics exactly on no points, CommitKeyLagrange::new
\* exactly on fewer than two; otherwise the key holds the points given, in
\* the order given.
C7_ConstructorsCheckLength ==
    /\ call.op = "CommitKey::new" =>
          /\ call.status = "panic" <=> Len(key_points) = 0
          /\ call.status # "panic" =>
                call.status = "ok"
                    /\ key = [kind |-> "CommitKey", inner |-> key_points]
    /\ call.op = "CommitKeyLagrange::new" =>
          /\ call.status = "panic" <=> Len(key_points) \in {0, 1}
          /\ call.status # "panic" =>
                call.status = "ok"
                    /\ key = [kind |-> "CommitKeyLagrange", inner |-> key_points]

\* a Lagrange key built from two different points
C7_Witness ==
    /\ call.op = "CommitKeyLagrange::new" /\ call.status = "ok"
    /\ Len(key.inner) = 2 /\ key.inner[1] # key.inner[2]

\* C8: batch_inverse never panics: every value it inverts is the product of
\* the non-zero elements of the slice (of the chunk, in the parallel form),
\* 1 when there are none, and so is not zero.
C8_BatchInverseNeverPanics ==
    /\ ipc # "panic"
    /\ Scalar_zero \notin inverted
    /\ (ipc = "done" /\ ~rayon) => inverted = {NonZeroProduct(v0)}
    /\ (ipc = "done" /\ rayon) =>
          inverted = {NonZeroProduct(SubSeq(v0, chunks[k][1], chunks[k][2])) :
                          k \in DOMAIN chunks}

\* a finished call on a slice of zeros only
C8_Witness ==
    /\ ipc = "done" /\ Len(v0) >= 2
    /\ \A i \in 1..Len(v0) : v0[i] = Scalar_zero
    /\ inverted = {Scalar_one}

\* C9, as claimed: a batch_inverse call makes exactly one field inversion.
C9_ExactlyOneInversionPerCall ==
    ipc = "done" => inversions = 1

\* C9, amended: a batch_inverse call makes one field inversion per
\* serial_batch_inversion call: one in the serial build, one per chunk in the
\* parallel build, however many elements are zero.
C9_OneInversionPerChunk ==
    ipc = "done" =>
        inversions =
            IF rayon
            THEN CeilDiv(Len(v0),
                         Max(Len(v0) \div num_cpus_available, 1))
            ELSE 1

\* a joined parallel call over a slice holding a zero that made more than
\* one inversion
C9_Witness ==
    /\ ipc = "done" /\ rayon
    /\ inversions > 1
    /\ \E i \in 1..Len(v0) : v0[i] = Scalar_zero

\* C10: every CommitKeyLagrange holds more than one point, so max_degree()
\* is at least 1.
C10_LagrangeKeyHasMoreThanOnePoint ==
    key.kind = "CommitKeyLagrange" =>
        /\ Len(key.inner) > 1
        /\ call.op = "max_degree" =>
              call.status = "ok" /\ call.value[1] >= 1

====
